---- MODULE Spec2Model ----
(***************************************************************************)
(* Model of the webhook service of src/server.js (the last of the three    *)
(* revisions the file holds, lines 939-1590): POST /webhook/:token,        *)
(* processWebhookPayload with its remote call, and the local sequence      *)
(* processWebhookPayloadFallback, one action per awaited store call.       *)
(***************************************************************************)
EXTENDS Integers, Sequences, FiniteSets, TLC

(***************************************************************************)
(* JSON values as the JavaScript code sees them.                           *)
(***************************************************************************)
Undef == [t |-> "undef"]
Null == [t |-> "null"]
Str(s) == [t |-> "str", s |-> s]
Num(n) == [t |-> "num", n |-> n]
Bool(b) == [t |-> "bool", b |-> b]
Obj(f) == [t |-> "obj", o |-> f]
Arr(a) == [t |-> "arr", a |-> a]

\* Values that are no JSON but that a property access can give: a function
\* of a prototype, and the TypeError of a property access on null or
\* undefined.
Fn == [t |-> "fn"]
TypeError == [t |-> "throw"]

\* JavaScript truthiness: what `a || b`, `!a` and `if (a)` test.
Truthy(v) ==
  CASE v.t \in {"obj", "arr", "fn"} -> TRUE
    [] v.t = "str" -> v.s # ""
    [] v.t = "num" -> v.n # 0
    [] v.t = "bool" -> v.b
    [] OTHER -> FALSE

\* a || b
JsOr(a, b) == IF Truthy(a) THEN a ELSE b

\* The text a value has as a column value or inside a template string.
Txt(v) ==
  CASE v.t = "str" -> v.s
    [] v.t = "num" -> ToString(v.n)
    [] v.t = "bool" -> IF v.b THEN "true" ELSE "false"
    [] v.t = "obj" -> "[object Object]"
    [] v.t = "arr" -> "[array]"
    [] OTHER -> ""

\* The index an array has for a key.
Index(key) ==
  CASE key = "0" -> 1
    [] key = "1" -> 2
    [] OTHER -> 0

\* The characters of the strings that are indexed.
Chars(str) ==
  CASE str = "x" -> <<"x">>
    [] str = "text" -> <<"t", "e", "x", "t">>
    [] str = "Ana" -> <<"A", "n", "a">>
    [] OTHER -> <<>>

\* current[key] without an own property of that name: what the prototype
\* of the value gives.
Inherited(cur, key) ==
  IF key = "constructor" THEN Fn
  ELSE IF key = "length" /\ cur.t = "str" THEN Num(Len(cur.s))
  ELSE IF key = "length" /\ cur.t = "arr" THEN Num(Len(cur.a))
  ELSE Undef

\* current[key]: a TypeError on null and undefined; the own keys of an
\* object, the elements of an array and the characters of a string, else
\* what is inherited.
Prop(cur, key) ==
  CASE cur.t \in {"null", "undef"} -> TypeError
    [] cur.t = "obj" ->
         IF key \in DOMAIN cur.o THEN cur.o[key] ELSE Inherited(cur, key)
    [] cur.t = "arr" ->
         IF Index(key) \in DOMAIN cur.a THEN cur.a[Index(key)]
         ELSE Inherited(cur, key)
    [] cur.t = "str" ->
         IF Index(key) \in DOMAIN Chars(cur.s)
         THEN Str(Chars(cur.s)[Index(key)])
         ELSE Inherited(cur, key)
    [] OTHER -> Inherited(cur, key)

\* One step of the reduce of getNestedValue:
\*   current && current[key] !== undefined ? current[key] : null
NestedStep(cur, key) ==
  IF Truthy(cur) /\ Prop(cur, key) # Undef THEN Prop(cur, key) ELSE Null

RECURSIVE Reduce(_, _)
Reduce(cur, keys) ==
  IF keys = <<>> THEN cur ELSE Reduce(NestedStep(cur, Head(keys)), Tail(keys))

\* getNestedValue(obj, path): path is the dotted path already split on ".".
getNestedValue(obj, path) == Reduce(obj, path)

\* path.split('.') for the source_field values the endpoints configure.
Split(path) ==
  CASE path = "lead.name" -> <<"lead", "name">>
    [] path = "lead.email" -> <<"lead", "email">>
    [] path = "lead.phone" -> <<"lead", "phone">>
    [] OTHER -> <<path>>

\* s.toLowerCase().trim() for the priority texts that occur.
LowerTrim(s) ==
  CASE s = " Alta " -> "alta"
    [] s = "ALTA" -> "alta"
    [] s = "HIGH" -> "high"
    [] s = "Baixa" -> "baixa"
    [] s = "  low" -> "low"
    [] s = "Média" -> "média"
    [] s = "Urgent " -> "urgent"
    [] s = "   " -> ""
    [] OTHER -> s

Threw(msg) == [threw |-> TRUE, v |-> msg]
Returned(v) == [threw |-> FALSE, v |-> v]

\* mapPriorityToEnum: (priority || 'medium').toLowerCase().trim(), then the
\* synonym table. A truthy value that is no string has no toLowerCase: the
\* call raises a TypeError.
mapPriorityToEnum(priority) ==
  LET p == JsOr(priority, Str("medium")) IN
  IF p.t # "str" THEN Threw("toLowerCase is not a function")
  ELSE LET lowerPriority == LowerTrim(p.s) IN
       IF lowerPriority \in {"baixa", "baixo"} THEN Returned("low")
       ELSE IF lowerPriority \in {"media", "medio", "médio", "média"}
            THEN Returned("medium")
       ELSE IF lowerPriority \in {"alta", "alto"} THEN Returned("high")
       ELSE IF lowerPriority \in {"low", "medium", "high"}
            THEN Returned(lowerPriority)
       ELSE Returned("medium")

(***************************************************************************)
(* The mapping loop of processWebhookPayloadFallback.                      *)
(***************************************************************************)
LeadFields ==
  {"status", "priority", "source", "name", "nome", "email", "phone",
   "title", "notes", "company"}

Mapping(src, tgt, req, def) ==
  [source_field |-> src, target_field |-> tgt, is_required |-> req,
   default_value |-> def]

\* const fieldValue = sourceValue || mapping.default_value
FieldValue(payload, mapping) ==
  JsOr(getNestedValue(payload, Split(mapping.source_field)),
       mapping.default_value)

\* Mutant of MissingRequired: is_required is not looked at.
MissingWhetherRequiredOrNot(payload, mapping) ==
  ~Truthy(FieldValue(payload, mapping))

\* if (mapping.is_required && !fieldValue) return { success: false, ... }
MissingRequired(payload, mapping) ==
  mapping.is_required /\ ~Truthy(FieldValue(payload, mapping))

\* Mutant of MapLoop: a target field that has a value is not written again.
RECURSIVE MapLoopFirstWins(_, _, _)
MapLoopFirstWins(payload, mappings, leadData) ==
  IF mappings = <<>> THEN [kind |-> "ok", leadData |-> leadData, field |-> ""]
  ELSE
    LET mapping == Head(mappings)
        fieldValue == FieldValue(payload, mapping)
    IN
    IF MissingRequired(payload, mapping)
    THEN [kind |-> "missing", leadData |-> leadData,
          field |-> mapping.source_field]
    ELSE IF ~Truthy(fieldValue) \/ leadData[mapping.target_field] # Undef
    THEN MapLoopFirstWins(payload, Tail(mappings), leadData)
    ELSE MapLoopFirstWins(payload, Tail(mappings),
                          [leadData EXCEPT ![mapping.target_field] = fieldValue])

\* The loop `for (const mapping of mappings)`: the outcome is the LeadData
\* after the last mapping ("ok"), the first required mapping without a
\* value ("missing"), or the TypeError of mapPriorityToEnum ("throw").
RECURSIVE MapLoop(_, _, _)
MapLoop(payload, mappings, leadData) ==
  IF mappings = <<>> THEN [kind |-> "ok", leadData |-> leadData, field |-> ""]
  ELSE
    LET mapping == Head(mappings)
        fieldValue == FieldValue(payload, mapping)
    IN
    IF MissingRequired(payload, mapping)
    THEN [kind |-> "missing", leadData |-> leadData,
          field |-> mapping.source_field]
    ELSE IF ~Truthy(fieldValue)
    THEN MapLoop(payload, Tail(mappings), leadData)
    ELSE IF mapping.target_field = "priority"
    THEN LET p == mapPriorityToEnum(fieldValue) IN
         IF p.threw
         THEN [kind |-> "throw", leadData |-> leadData, field |-> p.v]
         ELSE MapLoop(payload, Tail(mappings),
                      [leadData EXCEPT !["priority"] = Str(p.v)])
    ELSE MapLoop(payload, Tail(mappings),
                 [leadData EXCEPT ![mapping.target_field] = fieldValue])

\* Mutant of SeedLeadData: the default priority is taken as it is.
SeedLeadDataRaw(webhook, priority) ==
  [f \in LeadFields |->
     CASE f = "status" -> JsOr(webhook.default_lead_status, Str("new"))
       [] f = "priority" -> JsOr(webhook.default_lead_priority, Str("medium"))
       [] f = "source" -> JsOr(webhook.default_lead_source, Str("webhook"))
       [] OTHER -> Undef]

\* let leadData = { status: ... || 'new', priority: mapPriorityToEnum(...),
\*                  source: ... || 'webhook' }
\* (the seed's priority is filled in by the caller, which handles the raise)
SeedLeadData(webhook, priority) ==
  [f \in LeadFields |->
     CASE f = "status" -> JsOr(webhook.default_lead_status, Str("new"))
       [] f = "priority" -> Str(priority)
       [] f = "source" -> JsOr(webhook.default_lead_source, Str("webhook"))
       [] OTHER -> Undef]

\* Mutant of ApplyMappings: an empty mapping list gives the seeded LeadData.
ApplyMappingsEmptyOk(webhook, payload, mappings) ==
  LET seedP == mapPriorityToEnum(webhook.default_lead_priority) IN
  MapLoop(payload, mappings, SeedLeadData(webhook, seedP.v))

\* The synchronous stretch between the mappings fetch and the next await:
\* seed, then `if (mappings && mappings.length > 0) { loop } else { return }`.
\* mappings is <<>> for an empty list and for the null of a failed fetch.
ApplyMappings(webhook, payload, mappings) ==
  LET seedP == mapPriorityToEnum(webhook.default_lead_priority) IN
  IF seedP.threw
  THEN [kind |-> "throw", leadData |-> SeedLeadData(webhook, "medium"),
        field |-> seedP.v]
  ELSE IF mappings = <<>>
  THEN [kind |-> "nomappings", leadData |-> SeedLeadData(webhook, seedP.v),
        field |-> ""]
  ELSE MapLoop(payload, mappings, SeedLeadData(webhook, seedP.v))

(***************************************************************************)
(* The store's configuration tables, read-only to the service: the rows    *)
(* of webhook_endpoints with their active webhook_field_mappings, and the  *)
(* admin users.                                                            *)
(***************************************************************************)
MapA ==
  << Mapping("lead.name", "name", TRUE, Null),
     Mapping("lead.email", "email", FALSE, Null),
     Mapping("lead.phone", "phone", FALSE, Null) >>

MapB ==
  << Mapping("id", "title", TRUE, Null),
     Mapping("prio", "priority", TRUE, Null),
     Mapping("lead.name", "title", FALSE, Null) >>

Endpoint(id, company, active, mode, prio, column, maps) ==
  [webhook_id |-> id, company_id |-> company, is_active |-> active,
   mapping_mode |-> mode, default_lead_status |-> Null,
   default_lead_priority |-> prio, default_lead_source |-> Null,
   default_column_id |-> column, mappings |-> maps]

Endpoints ==
  { Endpoint("w_act", "c1", TRUE, "active", Str("HIGH"), "", MapA),
    Endpoint("w_col", "c1", TRUE, "active", Str("ALTA"), "col2", MapB),
    Endpoint("w_map", "c1", TRUE, "mapping", Null, "", MapA),
    Endpoint("w_off", "c1", FALSE, "active", Null, "", MapA),
    Endpoint("w_nomap", "c1", TRUE, "active", Null, "", <<>>),
    Endpoint("w_noadm", "c2", TRUE, "active", Null, "", MapA) }

\* pipelines ( pipeline_columns ( id, position ) ) of the endpoint row: the
\* columns of the endpoint's pipeline.
PipelineColumns(id) ==
  IF id = "w_nomap" THEN {}
  ELSE {[id |-> "col1", position |-> 1], [id |-> "col2", position |-> 2]}

\* The token of an endpoint is "t_" and its id; "t_none" is no endpoint's.
TokenOf(id) == "t_" \o id
Tokens == {TokenOf(e.webhook_id) : e \in Endpoints} \cup {"t_none"}

\* The rows get_webhook_by_token(p_token) selects.
EndpointsByToken(token) == {e \in Endpoints : TokenOf(e.webhook_id) = token}

\* The rows .from('webhook_endpoints').eq('id', webhookId) selects.
EndpointsById(id) == {e \in Endpoints : e.webhook_id = id}

\* The rows .from('users').eq('company_id', c).eq('is_admin', true).limit(1).
AdminUsers(company) == IF company = "c1" THEN {"u1"} ELSE {}

(***************************************************************************)
(* Request bodies.                                                         *)
(***************************************************************************)
Lead(f) == Obj("lead" :> Obj(f))

Payloads ==
  << Lead("name" :> Str("Joao") @@ "phone" :> Str("p1") @@ "email" :> Str("e2")),
     Lead("name" :> Str("Joao")),
     Lead([k \in {} |-> Null]),
     Lead("name" :> Str("Ana") @@ "phone" :> Str("p9")),
     Lead("name" :> Str("Ana") @@ "phone" :> Str("p9") @@ "email" :> Str("e2")),
     Lead("name" :> Str("")),
     Obj("id" :> Str("T1") @@ "prio" :> Str(" Alta ")
         @@ "lead" :> Obj("name" :> Str("Joao"))),
     Obj("id" :> Str("T1") @@ "prio" :> Str("Baixa")),
     Obj("id" :> Num(0) @@ "lead" :> Obj("name" :> Str("Joao"))),
     Obj("id" :> Str("T1") @@ "prio" :> Num(5)),
     Obj([k \in {} |-> Null]),
     Lead("name" :> Str("Rui") @@ "phone" :> Str("p7")) >>

\* The (token, payload) pairs the requests are drawn from.
Inputs ==
  ({"t_w_act"} \X {1, 2, 3, 4, 5, 6, 11, 12}) \cup ({"t_w_col"} \X {2, 7, 8, 9, 10})
  \cup ({"t_w_map", "t_w_nomap"} \X {2, 7}) \cup ({"t_w_off", "t_none"} \X {2})
  \cup ({"t_w_noadm"} \X {1})

(***************************************************************************)
(* State.                                                                  *)
(***************************************************************************)
\* The requests in flight: two, so that two handlers can interleave at
\* their awaits.
Reqs == {"r1", "r2"}

\* How many store calls of the handler and the local sequence may fail in
\* one behaviour (the remote call fails freely).
MaxFaults == 1

VARIABLES
  pc,        \* per request: the await the handler is suspended at
  rq,        \* per request: the locals of the handler and of the fallback
  ops,       \* per request: the store calls issued so far, in order
  contacts,  \* table contacts, a row's id is its index
  leads,     \* table leads, as create_lead_unified and move_lead_to_column leave it
  requests,  \* table webhook_requests, a row's id is its index
  samples,   \* table webhook_sample_data: rows of endpoint id and payload
  faults,    \* failed store calls so far
  calc       \* a call of one of the helper functions on its own

vars == <<pc, rq, ops, contacts, leads, requests, samples, faults, calc>>

NoResult ==
  [success |-> FALSE, mode |-> "", error |-> "", lead_id |-> 0,
   contact_id |-> 0, column_id |-> "", by |-> "none"]

NoResponse ==
  [status |-> 0, success |-> FALSE, mode |-> "", code |-> "", message |-> "",
   lead_id |-> 0]

NoLeadCall == [issued |-> FALSE, contact_id |-> 0, priority |-> "", title |-> ""]

\* remote and failed are history: what the remote call gave, and which store
\* calls of the request failed and how ("<call>!error", "<call>!raise").
InitLocals ==
  [method |-> "", seen |-> 0, token |-> "", payload |-> 0, webhook |-> "", remote |-> "",
   result |-> NoResult, response |-> NoResponse, fbWebhook |-> "",
   requestData |-> 0, user |-> "", outcome |-> "",
   leadData |-> [f \in LeadFields |-> Undef], existingContact |-> 0,
   contactId |-> 0, leadCall |-> NoLeadCall, leadResult |-> 0, failed |-> {}]

\* No helper function is being called on its own.
NoCalc ==
  [fn |-> "", doc |-> Null, path |-> <<>>, arg |-> Null, calls |-> 0,
   out |-> Null, threw |-> FALSE, again |-> Null]

Cfg(id) == CHOOSE e \in Endpoints : e.webhook_id = id

Contact(company, phone, email, name) ==
  [company_id |-> company, phone |-> phone, email |-> email, full_name |-> name]

\* The contacts the tenants hold before the first request.  Rows 3 and 4
\* are what two simultaneous deliveries of one new phone leave behind: each
\* looked the phone up before the other inserted.
InitContacts ==
  << Contact("c1", "p1", "e1", "Joao"), Contact("c1", "", "e2", "Bia"),
     Contact("c1", "p7", "", "Rui"), Contact("c1", "p7", "", "Rui"),
     Contact("c2", "p9", "e2", "Eva") >>

Init ==
  /\ pc = [r \in Reqs |-> "idle"]
  /\ rq = [r \in Reqs |-> InitLocals]
  /\ ops = [r \in Reqs |-> <<>>]
  /\ contacts = InitContacts
  /\ leads = <<>>
  /\ requests = <<>>
  /\ samples = <<>>
  /\ faults = 0
  /\ calc = NoCalc

\* What an awaited store call can do: return data, return an error, or raise.
Outcomes == IF faults < MaxFaults THEN {"ok", "error", "raise"} ELSE {"ok"}

Fault(o) == faults' = IF o = "ok" THEN faults ELSE faults + 1

\* The locals of r after the call op ended with outcome o.
Noted(r, op, o) ==
  IF o = "ok" THEN rq[r]
  ELSE [rq[r] EXCEPT !.failed = @ \cup {op \o "!" \o o}]

Issue(r, op) == ops' = [ops EXCEPT ![r] = Append(@, op)]

\* .single() on a query for row ids: the id when the query selects exactly
\* one row, else no data (0) and an error the callers do not look at.
Single(rows) == IF Cardinality(rows) = 1 THEN CHOOSE x \in rows : TRUE ELSE 0

Goto(r, loc, label) ==
  /\ pc' = [pc EXCEPT ![r] = label]
  /\ rq' = [rq EXCEPT ![r] = loc]

(***************************************************************************)
(* POST /webhook/:token                                                    *)
(***************************************************************************)
Json(status, success, code, mode, message, lead_id) ==
  [status |-> status, success |-> success, mode |-> mode, code |-> code,
   message |-> message, lead_id |-> lead_id]

\* process.env.NODE_ENV of the deployment (NODE_ENV=production).
NodeEnv == "production"

\* message: process.env.NODE_ENV === 'development' ? error.message : ...
InternalMessage(raw) == IF NodeEnv = "development" THEN raw ELSE "Erro interno"

\* The handler's catch: res.status(500).json({... code: 'INTERNAL_ERROR'}).
InternalError ==
  Json(500, FALSE, "INTERNAL_ERROR", "",
       InternalMessage("get_webhook_by_token raised"), 0)

Answer(r, loc, response) == Goto(r, [loc EXCEPT !.response = response], "done")

\* The validator and the first lines of the handler: an empty body is
\* answered 400, otherwise the token lookup is awaited. (Requests are
\* interchangeable: r2 is taken to be the one that arrives second.)
Receive(r) ==
  /\ pc[r] = "idle"
  /\ r = "r2" => pc["r1"] # "idle"
  /\ \E in \in Inputs :
       LET loc == [rq[r] EXCEPT !.method = "POST", !.token = in[1],
                                !.payload = in[2]]
       IN
       IF DOMAIN Payloads[in[2]].o = {}
       THEN Answer(r, loc, Json(400, FALSE, "", "", "Dados inválidos", 0))
       ELSE Goto(r, loc, "lookup")
  /\ UNCHANGED <<calc, ops, contacts, leads, requests, samples, faults>>

\* Mutant of getWebhookByToken: the error of the call is not looked at.
getWebhookByTokenIgnoresError(token, o) ==
  IF Cardinality(EndpointsByToken(token)) = 1
  THEN (CHOOSE e \in EndpointsByToken(token) : TRUE).webhook_id
  ELSE ""

\* getWebhookByToken: the data of rpc get_webhook_by_token(...).single(), as
\* the id of the endpoint; null ("") when the call returned an error, which
\* it also does when the token selects no row.
getWebhookByToken(token, o) ==
  IF o = "ok" /\ Cardinality(EndpointsByToken(token)) = 1
  THEN (CHOOSE e \in EndpointsByToken(token) : TRUE).webhook_id
  ELSE ""

NotFound ==
  Json(404, FALSE, "WEBHOOK_NOT_FOUND", "", "Webhook não encontrado", 0)

Inactive ==
  Json(403, FALSE, "WEBHOOK_INACTIVE", "", "Webhook está inativo", 0)

\* Mutant of LookupAnswer: is_active is not looked at.
LookupAnswerNoActiveCheck(webhook) ==
  IF webhook = "" THEN NotFound ELSE NoResponse

\* if (!webhook) 404; if (!webhook.is_active) 403; else processWebhookPayload.
\* The answer of the handler for the looked-up endpoint, NoResponse when it
\* goes on to process.
LookupAnswer(webhook) ==
  IF webhook = "" THEN NotFound
  ELSE IF ~Cfg(webhook).is_active THEN Inactive
  ELSE NoResponse

TokenLookup(r) ==
  /\ pc[r] = "lookup"
  /\ Issue(r, "rpc:get_webhook_by_token")
  /\ \E o \in Outcomes :
       /\ Fault(o)
       /\ LET webhook == getWebhookByToken(rq[r].token, o)
              loc == [Noted(r, "rpc:get_webhook_by_token", o)
                        EXCEPT !.webhook = webhook]
          IN
          IF o = "raise" THEN Answer(r, loc, InternalError)
          ELSE IF LookupAnswer(webhook) # NoResponse
          THEN Answer(r, loc, LookupAnswer(webhook))
          ELSE Goto(r, loc, "rpc")
  /\ UNCHANGED <<calc, contacts, leads, requests, samples>>

(***************************************************************************)
(* GET /webhook/:token/test                                                *)
(***************************************************************************)
\* The handler begins: the token lookup is awaited.
TestReceive(r) ==
  /\ pc[r] = "idle"
  /\ r = "r2" => pc["r1"] # "idle"
  /\ \E token \in Tokens :
       Goto(r, [rq[r] EXCEPT !.method = "GET", !.token = token], "t_lookup")
  /\ UNCHANGED <<calc, ops, contacts, leads, requests, samples, faults>>

\* res.json({ success: true, webhook: { name, is_active, mapping_mode,
\* company_id }, test_payload_example }), 404 without an endpoint.
TestAnswer(webhook) ==
  IF webhook = "" THEN Json(404, FALSE, "", "", "Webhook não encontrado", 0)
  ELSE Json(200, TRUE, "", Cfg(webhook).mapping_mode, "", 0)

\* Mutant of TestHandler: the example payload is processed as a delivery.
TestHandlerProcesses(r, loc, webhook) ==
  IF webhook = "" THEN Answer(r, loc, TestAnswer(webhook))
  ELSE Goto(r, [loc EXCEPT !.payload = 2], "rpc")

\* What the handler does with the looked-up endpoint: it answers.
TestHandler(r, loc, webhook) == Answer(r, loc, TestAnswer(webhook))

\* await getWebhookByToken(token), then the answer; the catch answers 500.
TestLookup(r) ==
  /\ pc[r] = "t_lookup"
  /\ Issue(r, "rpc:get_webhook_by_token")
  /\ \E o \in Outcomes :
       /\ Fault(o)
       /\ LET webhook == getWebhookByToken(rq[r].token, o)
              loc == [Noted(r, "rpc:get_webhook_by_token", o)
                        EXCEPT !.webhook = webhook]
          IN
          IF o = "raise"
          THEN Answer(r, loc, Json(500, FALSE, "", "", "Erro interno", 0))
          ELSE TestHandler(r, loc, webhook)
  /\ UNCHANGED <<calc, contacts, leads, requests, samples>>

(***************************************************************************)
(* processWebhookPayload                                                   *)
(***************************************************************************)
Failure(msg) == [NoResult EXCEPT !.error = msg, !.by = "local"]

\* What the remote procedure process_webhook_payload can hand back as data.
RemoteData(kind) ==
  IF kind = "success"
  THEN [NoResult EXCEPT !.success = TRUE, !.lead_id = 99, !.by = "remote"]
  ELSE [NoResult EXCEPT !.error = "remote rejected", !.by = "remote"]

\* The outcomes of the awaited remote call: data (a result saying success or
\* failure), an error, or a raised exception.
RemoteOutcomes == {"success", "failure", "error", "raise"}

\* Mutant of FallsBack: a result that says failure is retried locally too.
FallsBackOnFailure(o) == o \in {"error", "raise", "failure"}

\* if (error) and catch (err): the outcomes that call the fallback.
FallsBack(o) == o \in {"error", "raise"}

\* The history keeps an error and an exception of the remote call as one.
RemoteKind(o) == IF o \in {"error", "raise"} THEN "failed" ELSE o

\* The remote call. With data the result is returned as it is; an error or
\* an exception calls processWebhookPayloadFallback.
processWebhookPayload(r) ==
  /\ pc[r] = "rpc"
  /\ \E o \in RemoteOutcomes :
       IF FallsBack(o)
       THEN /\ ops' = [ops EXCEPT ![r] =
                         @ \o <<"rpc:process_webhook_payload", "call:fallback">>]
            /\ Goto(r, [rq[r] EXCEPT !.remote = RemoteKind(o)], "fb_fetch")
       ELSE /\ Issue(r, "rpc:process_webhook_payload")
            /\ Goto(r, [rq[r] EXCEPT !.remote = RemoteKind(o),
                                     !.result = RemoteData(o)], "respond")
  /\ UNCHANGED <<calc, contacts, leads, requests, samples, faults>>


(***************************************************************************)
(* processWebhookPayloadFallback, one action per await.                    *)
(***************************************************************************)
\* return <result> from the fallback (and so from processWebhookPayload).
Return(r, loc, res) == Goto(r, [loc EXCEPT !.result = res], "respond")

\* Mutant of Catch: the sequence is run once more before it gives up.
CatchRetries(r, loc, msg) ==
  IF Len(SelectSeq(ops[r], LAMBDA op : op = "select:webhook_endpoints")) < 2
  THEN Goto(r, loc, "fb_fetch")
  ELSE Return(r, loc, Failure(msg))

\* Mutant of Catch: the exception goes on to the caller and ends in the
\* handler's catch.
CatchRethrows(r, loc, msg) == Answer(r, loc, InternalError)

\* catch (error) { return { success: false, error: error.message } }
Catch(r, loc, msg) == Return(r, loc, Failure(msg))

\* select from webhook_endpoints ... .eq('id', webhookId).single(): without
\* exactly one row .single() gives an error, which is thrown.
FbFetch(r) ==
  /\ pc[r] = "fb_fetch"
  /\ Issue(r, "select:webhook_endpoints")
  /\ \E o \in Outcomes :
       /\ Fault(o)
       /\ LET loc == Noted(r, "select:webhook_endpoints", o) IN
          IF o = "ok" /\ Cardinality(EndpointsById(rq[r].webhook)) = 1
          THEN Goto(r, [loc EXCEPT !.fbWebhook = rq[r].webhook], "fb_audit")
          ELSE Catch(r, loc, "webhook_endpoints: no row")
  /\ UNCHANGED <<calc, contacts, leads, requests, samples>>

MappingResult ==
  [NoResult EXCEPT !.success = TRUE, !.mode = "mapping", !.by = "local"]

\* insert into webhook_requests (status 'processing'), then the branch on
\* webhook.mapping_mode.
FbAuditInsert(r) ==
  /\ pc[r] = "fb_audit"
  /\ Issue(r, "insert:webhook_requests")
  /\ \E o \in Outcomes :
       /\ Fault(o)
       /\ requests' =
            IF o = "ok"
            THEN Append(requests,
                        [webhook_endpoint_id |-> rq[r].fbWebhook,
                         payload |-> rq[r].payload, status |-> "processing",
                         lead_id |-> 0, by |-> r])
            ELSE requests
       /\ LET loc == [Noted(r, "insert:webhook_requests", o)
                        EXCEPT !.requestData =
                                 IF o = "ok" THEN Len(requests) + 1 ELSE 0]
              mode == Cfg(rq[r].fbWebhook).mapping_mode
          IN
          IF o = "raise" THEN Catch(r, loc, "webhook_requests: insert raised")
          ELSE IF mode = "mapping" THEN Goto(r, loc, "fb_sample")
          ELSE IF mode # "active"
          THEN Return(r, loc, Failure("Webhook não está em modo ativo"))
          ELSE Goto(r, loc, "fb_user")
  /\ UNCHANGED <<calc, contacts, leads, samples>>

\* The row of the upsert.
SampleRow(id, payload) == [webhook_endpoint_id |-> id, sample_payload |-> payload]

\* The column the rows of webhook_sample_data conflict on: each endpoint has
\* one sample.
SampleKey(row) == row.webhook_endpoint_id

\* Mutant of Upsert: the row is not written.
UpsertNothing(id, payload) == samples

\* Mutant of Upsert: a plain insert, whatever rows the table holds.
UpsertInserts(id, payload) == Append(samples, SampleRow(id, payload))

\* The table webhook_sample_data after .upsert({ webhook_endpoint_id,
\* sample_payload, detected_fields }): the row replaces the one it conflicts
\* with, or is added when there is none.
Upsert(id, payload) ==
  IF \E i \in DOMAIN samples : SampleKey(samples[i]) = id
  THEN [i \in DOMAIN samples |->
          IF SampleKey(samples[i]) = id THEN SampleRow(id, payload)
          ELSE samples[i]]
  ELSE Append(samples, SampleRow(id, payload))

\* upsert into webhook_sample_data; its error is logged and the sequence
\* goes on.
FbSample(r) ==
  /\ pc[r] = "fb_sample"
  /\ Issue(r, "upsert:webhook_sample_data")
  /\ \E o \in Outcomes :
       /\ Fault(o)
       /\ samples' = IF o = "ok" THEN Upsert(rq[r].fbWebhook, rq[r].payload)
                     ELSE samples
       /\ LET loc == Noted(r, "upsert:webhook_sample_data", o) IN
          IF o = "raise" THEN Catch(r, loc, "webhook_sample_data: upsert raised")
          ELSE IF rq[r].requestData # 0 THEN Goto(r, loc, "fb_completed")
          ELSE Return(r, loc, MappingResult)
  /\ UNCHANGED <<calc, contacts, leads, requests>>

\* Mutant of SetStatus: the update writes the status alone.
SetStatusAlone(id, status, lead) == [requests EXCEPT ![id].status = status]

\* update webhook_requests set status = ..., lead_id = ... where id = ...
SetStatus(id, status, lead) ==
  [requests EXCEPT ![id].status = status, ![id].lead_id = lead]

\* update webhook_requests set status = 'completed'
FbCompleted(r) ==
  /\ pc[r] = "fb_completed"
  /\ Issue(r, "update:webhook_requests")
  /\ \E o \in Outcomes :
       /\ Fault(o)
       /\ requests' = IF o = "ok"
                      THEN SetStatus(rq[r].requestData, "completed", 0)
                      ELSE requests
       /\ LET loc == Noted(r, "update:webhook_requests", o) IN
          IF o = "raise" THEN Catch(r, loc, "webhook_requests: update raised")
          ELSE Return(r, loc, MappingResult)
  /\ UNCHANGED <<calc, contacts, leads, samples>>

\* select id from users where company_id = ... and is_admin, .limit(1).single()
\* Mutant of NoUser: only the error of the lookup is looked at.
NoUserOnlyOnError(o, users) == o = "error"

\* if (userError || !user)
NoUser(o, users) == o = "error" \/ users = {}

FbUser(r) ==
  /\ pc[r] = "fb_user"
  /\ Issue(r, "select:users")
  /\ \E o \in Outcomes :
       /\ Fault(o)
       /\ LET users == AdminUsers(Cfg(rq[r].fbWebhook).company_id)
              loc == Noted(r, "select:users", o)
          IN
          IF o = "raise" THEN Catch(r, loc, "users: select raised")
          ELSE IF NoUser(o, users)
          THEN Return(r, loc,
                      Failure("Usuário não encontrado para criação do lead"))
          ELSE Goto(r, [loc EXCEPT !.user = IF users = {} THEN ""
                                            ELSE CHOOSE u \in users : TRUE],
                    "fb_mappings")
  /\ UNCHANGED <<calc, contacts, leads, requests, samples>>

\* if (leadData.phone || leadData.email || leadData.name || leadData.nome)
HasIdentity(leadData) ==
  \/ Truthy(leadData["phone"]) \/ Truthy(leadData["email"])
  \/ Truthy(leadData["name"]) \/ Truthy(leadData["nome"])

\* Mutant of AfterMapping: a contact is resolved only for a phone or an email.
AfterMappingNeedsPhoneOrEmail(leadData) ==
  IF Truthy(leadData["phone"]) THEN "fb_phone"
  ELSE IF Truthy(leadData["email"]) THEN "fb_email"
  ELSE "fb_lead"

\* Where the contact resolution goes first for a LeadData: the phone lookup,
\* else the email lookup, else the insert; past it when nothing identifies
\* a contact.
AfterMapping(leadData) ==
  IF ~HasIdentity(leadData) THEN "fb_lead"
  ELSE IF Truthy(leadData["phone"]) THEN "fb_phone"
  ELSE IF Truthy(leadData["email"]) THEN "fb_email"
  ELSE "fb_cinsert"

\* Mutant of MappingBranch: a missing required field is noticed but the
\* sequence goes on to the contact resolution.
MappingBranchGoesOn(r, loc, m) ==
  IF m.kind = "throw" THEN Catch(r, loc, m.field)
  ELSE IF m.kind = "nomappings"
  THEN Return(r, loc, Failure("Nenhum mapeamento de campo configurado"))
  ELSE Goto(r, loc, AfterMapping(m.leadData))

\* What follows the seed and the mapping loop with outcome m: the returns of
\* the loop and of the else branch, the catch, or the contact resolution.
MappingBranch(r, loc, m) ==
  IF m.kind = "throw" THEN Catch(r, loc, m.field)
  ELSE IF m.kind = "nomappings"
  THEN Return(r, loc, Failure("Nenhum mapeamento de campo configurado"))
  ELSE IF m.kind = "missing"
  THEN Return(r, loc, Failure("Campo obrigatório ausente: " \o m.field))
  ELSE Goto(r, loc, AfterMapping(m.leadData))

\* select from webhook_field_mappings (active rows of the endpoint), then the
\* seed of leadData and the mapping loop, up to the next await.
FbMappings(r) ==
  /\ pc[r] = "fb_mappings"
  /\ Issue(r, "select:webhook_field_mappings")
  /\ \E o \in Outcomes :
       /\ Fault(o)
       /\ LET webhook == Cfg(rq[r].fbWebhook)
              mappings == IF o = "ok" THEN webhook.mappings ELSE <<>>
              m == ApplyMappings(webhook, Payloads[rq[r].payload], mappings)
              loc == Noted(r, "select:webhook_field_mappings", o)
          IN
          IF o = "raise"
          THEN Catch(r, loc, "webhook_field_mappings: select raised")
          ELSE MappingBranch(r, [loc EXCEPT !.outcome = m.kind,
                                            !.leadData = m.leadData], m)
  /\ UNCHANGED <<calc, contacts, leads, requests, samples>>

\* The ids of the contacts of a company whose column col equals val.
\* Mutant of ContactsWith: the query leaves out .eq('company_id', ...).
ContactsWithAnyTenant(company, col, val) ==
  {i \in 1..Len(contacts) : contacts[i][col] = val}

ContactsWith(company, col, val) ==
  {i \in 1..Len(contacts) :
     contacts[i].company_id = company /\ contacts[i][col] = val}

\* Mutant of ContactLookup: the query never finds a row.
ContactLookupMisses(company, col, leadData, o) == 0

\* const { data } = await ...from('contacts').select('id')
\*   .eq('company_id', company).eq(col, leadData[col]).single()
\* The error of the call is not looked at: without data the contact counts
\* as not found.
ContactLookup(company, col, leadData, o) ==
  IF o = "ok" THEN Single(ContactsWith(company, col, Txt(leadData[col])))
  ELSE 0

\* The phone lookup: a hit is the existing contact, and the email lookup is
\* skipped; a miss goes to the email lookup if LeadData has an email, else
\* to the insert.
FbPhone(r) ==
  /\ pc[r] = "fb_phone"
  /\ Issue(r, "select:contacts:phone")
  /\ \E o \in Outcomes :
       /\ Fault(o)
       /\ LET phoneContact ==
                ContactLookup(Cfg(rq[r].fbWebhook).company_id, "phone",
                              rq[r].leadData, o)
              loc == [Noted(r, "select:contacts:phone", o)
                        EXCEPT !.seen = Len(contacts)]
          IN
          IF o = "raise" THEN Catch(r, loc, "contacts: select raised")
          ELSE IF phoneContact # 0
          THEN Goto(r, [loc EXCEPT !.existingContact = phoneContact,
                                   !.contactId = phoneContact], "fb_lead")
          ELSE IF Truthy(rq[r].leadData["email"])
          THEN Goto(r, loc, "fb_email")
          ELSE Goto(r, loc, "fb_cinsert")
  /\ UNCHANGED <<calc, contacts, leads, requests, samples>>

\* The email lookup: a hit is the existing contact, a miss goes to the insert.
FbEmail(r) ==
  /\ pc[r] = "fb_email"
  /\ Issue(r, "select:contacts:email")
  /\ \E o \in Outcomes :
       /\ Fault(o)
       /\ LET emailContact ==
                ContactLookup(Cfg(rq[r].fbWebhook).company_id, "email",
                              rq[r].leadData, o)
              loc == Noted(r, "select:contacts:email", o)
          IN
          IF o = "raise" THEN Catch(r, loc, "contacts: select raised")
          ELSE IF emailContact # 0
          THEN Goto(r, [loc EXCEPT !.existingContact = emailContact,
                                   !.contactId = emailContact], "fb_lead")
          ELSE Goto(r, loc, "fb_cinsert")
  /\ UNCHANGED <<calc, contacts, leads, requests, samples>>

\* The row of the insert into contacts.
NewContact(company, ld) ==
  Contact(company, Txt(ld["phone"]), Txt(ld["email"]),
          Txt(JsOr(JsOr(ld["name"], ld["nome"]), Str("Contato via Webhook"))))

\* if (!contactError) contactId = contactResult.id: the id of the new row,
\* null (0) when the insert returned an error.
InsertedContactId(o) == IF o = "ok" THEN Len(contacts) + 1 ELSE 0

\* insert into contacts; an error leaves contactId null and goes on.
FbContactInsert(r) ==
  /\ pc[r] = "fb_cinsert"
  /\ Issue(r, "insert:contacts")
  /\ \E o \in Outcomes :
       /\ Fault(o)
       /\ contacts' =
            IF o = "ok"
            THEN Append(contacts,
                        NewContact(Cfg(rq[r].fbWebhook).company_id,
                                   rq[r].leadData))
            ELSE contacts
       /\ LET loc == Noted(r, "insert:contacts", o) IN
          IF o = "raise" THEN Catch(r, loc, "contacts: insert raised")
          ELSE Goto(r, [loc EXCEPT !.contactId = InsertedContactId(o)],
                    "fb_lead")
  /\ UNCHANGED <<calc, leads, requests, samples>>

\* The column create_lead_unified puts a new lead in.
EntryColumn == "col1"

\* Success of the fallback: column_id is default_column_id || leadResult.column_id.
LeadCreated(webhook, lead, contact) ==
  [NoResult EXCEPT !.success = TRUE, !.lead_id = lead, !.contact_id = contact,
                   !.column_id = IF webhook.default_column_id # ""
                                 THEN webhook.default_column_id
                                 ELSE EntryColumn,
                   !.by = "local"]

\* The lead_data of the call of create_lead_unified, as far as it is looked at.
LeadArgs(contactId, ld) ==
  [issued |-> TRUE, contact_id |-> contactId,
   priority |-> Txt(ld["priority"]),
   title |-> Txt(JsOr(JsOr(JsOr(ld["title"], ld["name"]), ld["nome"]),
                      Str("Lead via Webhook")))]

\* What create_lead_unified can do: the store's outcomes, or data that says
\* success: false.
LeadOutcomes ==
  Outcomes \cup (IF faults < MaxFaults THEN {"unsuccessful"} ELSE {})

\* The row of a lead created for a call of create_lead_unified by r.
LeadRow(webhook, call, r) ==
  [company_id |-> webhook.company_id, contact_id |-> call.contact_id,
   priority |-> call.priority, title |-> call.title,
   column_id |-> EntryColumn, by |-> r]

\* Mutant of NewLeadId: a delivery whose lead the tenant has already (same
\* title) is taken as a duplicate and gets the id of that lead.
NewLeadIdUnlessDuplicate(row) ==
  LET same == {i \in DOMAIN leads : /\ leads[i].company_id = row.company_id
                                    /\ leads[i].title = row.title}
  IN IF same = {} THEN Len(leads) + 1 ELSE CHOOSE i \in same : TRUE

\* The lead_id a successful call returns: that of a new row, whatever the
\* table holds; the local path looks for no earlier delivery.
NewLeadId(row) == Len(leads) + 1

\* The table leads with the row under the id.
LeadsWith(id, row) == IF id \in DOMAIN leads THEN leads ELSE Append(leads, row)

\* Mutant of ContactsAfterLeadCall: a failed lead creation takes back the
\* contact the request inserted.
ContactsAfterLeadCallRolledBack(r, o) ==
  IF o # "ok" /\ rq[r].existingContact = 0 /\ rq[r].contactId # 0
  THEN SubSeq(contacts, 1, rq[r].contactId - 1)
         \o SubSeq(contacts, rq[r].contactId + 1, Len(contacts))
  ELSE contacts

\* The table contacts after the call of create_lead_unified ended with o:
\* the throw goes to the catch, which deletes nothing.
ContactsAfterLeadCall(r, o) == contacts

\* Mutant of AfterLead: the caller is answered as soon as the lead exists,
\* and the move and the audit update are made afterwards.
AfterLeadAnswersFirst(r, loc, webhook, lead) ==
  LET res == LeadCreated(webhook, lead, loc.leadCall.contact_id)
      sent == [loc EXCEPT !.response =
                 Json(200, TRUE, "", "", "Lead processado com sucesso", lead)]
  IN
  IF webhook.default_column_id # "" THEN Goto(r, sent, "fb_move")
  ELSE IF loc.requestData # 0 THEN Goto(r, sent, "fb_success")
  ELSE Return(r, loc, res)

\* What follows a created lead: the awaited move when the endpoint has a
\* column, else the awaited audit update when there is an audit record,
\* else the return.
AfterLead(r, loc, webhook, lead) ==
  IF webhook.default_column_id # "" THEN Goto(r, loc, "fb_move")
  ELSE IF loc.requestData # 0 THEN Goto(r, loc, "fb_success")
  ELSE Return(r, loc, LeadCreated(webhook, lead, loc.leadCall.contact_id))

\* rpc create_lead_unified: an error or a result without success is thrown;
\* after a success the move, the audit update or the return comes next.
FbLead(r) ==
  /\ pc[r] = "fb_lead"
  /\ Issue(r, "rpc:create_lead_unified")
  /\ \E o \in LeadOutcomes :
       /\ Fault(o)
       /\ LET webhook == Cfg(rq[r].fbWebhook)
              call == LeadArgs(rq[r].contactId, rq[r].leadData)
              lead == NewLeadId(LeadRow(webhook, call, r))
              loc == [Noted(r, "rpc:create_lead_unified", o)
                        EXCEPT !.leadCall = call,
                               !.leadResult = IF o = "ok" THEN lead ELSE 0]
          IN
          /\ leads' = IF o = "ok"
                      THEN LeadsWith(lead, LeadRow(webhook, call, r))
                      ELSE leads
          /\ contacts' = ContactsAfterLeadCall(r, o)
          /\ IF o # "ok" THEN Catch(r, loc, "create_lead_unified: " \o o)
             ELSE AfterLead(r, loc, webhook, lead)
  /\ UNCHANGED <<calc, requests, samples>>

\* rpc move_lead_to_column(lead_id, webhook.default_column_id); its error is
\* logged and the sequence goes on.
FbMove(r) ==
  /\ pc[r] = "fb_move"
  /\ Issue(r, "rpc:move_lead_to_column")
  /\ \E o \in Outcomes :
       /\ Fault(o)
       /\ LET webhook == Cfg(rq[r].fbWebhook)
              loc == Noted(r, "rpc:move_lead_to_column", o)
          IN
          /\ leads' = IF o = "ok"
                      THEN [leads EXCEPT ![rq[r].leadResult].column_id =
                              webhook.default_column_id]
                      ELSE leads
          /\ IF o = "raise" THEN Catch(r, loc, "move_lead_to_column raised")
             ELSE IF rq[r].requestData # 0 THEN Goto(r, loc, "fb_success")
             ELSE Return(r, loc,
                         LeadCreated(webhook, rq[r].leadResult,
                                     rq[r].leadCall.contact_id))
  /\ UNCHANGED <<calc, contacts, requests, samples>>

\* update webhook_requests set status = 'success', lead_id = ...
FbSuccess(r) ==
  /\ pc[r] = "fb_success"
  /\ Issue(r, "update:webhook_requests")
  /\ \E o \in Outcomes :
       /\ Fault(o)
       /\ requests' = IF o = "ok"
                      THEN SetStatus(rq[r].requestData, "success",
                                     rq[r].leadResult)
                      ELSE requests
       /\ LET loc == Noted(r, "update:webhook_requests", o) IN
          IF o = "raise" THEN Catch(r, loc, "webhook_requests: update raised")
          ELSE Return(r, loc,
                      LeadCreated(Cfg(rq[r].fbWebhook), rq[r].leadResult,
                                  rq[r].leadCall.contact_id))
  /\ UNCHANGED <<calc, contacts, leads, samples>>

(***************************************************************************)
(* The handler after processWebhookPayload returned.                       *)
(***************************************************************************)
\* The body of the answer: mapping mode answers the fixed mapping response,
\* active mode copies the result.
ResponseFor(webhook, result) ==
  IF webhook.mapping_mode = "mapping"
  THEN Json(200, TRUE, "", "mapping",
            "Dados de exemplo salvos para mapeamento", 0)
  ELSE Json(200, result.success, "", "",
            IF result.success THEN "Lead processado com sucesso"
            ELSE result.error,
            IF result.success THEN result.lead_id ELSE 0)

Respond(r) ==
  /\ pc[r] = "respond"
  /\ Answer(r, rq[r], ResponseFor(Cfg(rq[r].webhook), rq[r].result))
  /\ UNCHANGED <<calc, ops, contacts, leads, requests, samples, faults>>

Next ==
  \E r \in Reqs :
    \/ Receive(r)
    \/ TokenLookup(r)
    \/ TestReceive(r)
    \/ TestLookup(r)
    \/ processWebhookPayload(r)
    \/ FbFetch(r)
    \/ FbAuditInsert(r)
    \/ FbSample(r)
    \/ FbCompleted(r)
    \/ FbUser(r)
    \/ FbMappings(r)
    \/ FbPhone(r)
    \/ FbEmail(r)
    \/ FbContactInsert(r)
    \/ FbLead(r)
    \/ FbMove(r)
    \/ FbSuccess(r)
    \/ Respond(r)

Spec == Init /\ [][Next]_vars

\* The steps of a request after its arrival: each is the return of an
\* awaited call, or the handler going on after one.
Continue(r) ==
  \/ TokenLookup(r)
  \/ TestLookup(r)
  \/ processWebhookPayload(r)
  \/ FbFetch(r)
  \/ FbAuditInsert(r)
  \/ FbSample(r)
  \/ FbCompleted(r)
  \/ FbUser(r)
  \/ FbMappings(r)
  \/ FbPhone(r)
  \/ FbEmail(r)
  \/ FbContactInsert(r)
  \/ FbLead(r)
  \/ FbMove(r)
  \/ FbSuccess(r)
  \/ Respond(r)

\* One request, followed from its arrival to its response.
LiveNext ==
  \/ Receive("r1")
  \/ TestReceive("r1")
  \/ Continue("r1")

\* The server with every awaited call returning or raising in the end: the
\* event loop then resumes the handler that awaits it.
LiveSpec == Init /\ [][LiveNext]_vars /\ WF_vars(Continue("r1"))

(***************************************************************************)
(* The same handlers with the requests arriving one at a time: a request   *)
(* is received only when no other one is being handled. The store begins   *)
(* without two contacts of a tenant that share a phone or an email.        *)
(***************************************************************************)
SeqContacts ==
  << Contact("c1", "p1", "e1", "Joao"), Contact("c1", "", "e2", "Bia") >>

SeqInit ==
  /\ pc = [r \in Reqs |-> "idle"]
  /\ rq = [r \in Reqs |-> InitLocals]
  /\ ops = [r \in Reqs |-> <<>>]
  /\ contacts = SeqContacts
  /\ leads = <<>>
  /\ requests = <<>>
  /\ samples = <<>>
  /\ faults = 0
  /\ calc = NoCalc

\* No other request is between its arrival and its response.
Alone(r) == \A x \in Reqs \ {r} : pc[x] \in {"idle", "done"}

SeqReceive(r) == Alone(r) /\ Receive(r)

SeqTestReceive(r) == Alone(r) /\ TestReceive(r)

SeqNext ==
  \E r \in Reqs :
    \/ SeqReceive(r)
    \/ TokenLookup(r)
    \/ SeqTestReceive(r)
    \/ TestLookup(r)
    \/ processWebhookPayload(r)
    \/ FbFetch(r)
    \/ FbAuditInsert(r)
    \/ FbSample(r)
    \/ FbCompleted(r)
    \/ FbUser(r)
    \/ FbMappings(r)
    \/ FbPhone(r)
    \/ FbEmail(r)
    \/ FbContactInsert(r)
    \/ FbLead(r)
    \/ FbMove(r)
    \/ FbSuccess(r)
    \/ Respond(r)

SeqSpec == SeqInit /\ [][SeqNext]_vars

(***************************************************************************)
(* The helper functions getNestedValue and mapPriorityToEnum called on     *)
(* their own, on documents and values of every JSON shape.                 *)
(***************************************************************************)
Docs ==
  { Obj("lead" :> Obj("name" :> Str("Joao") @@ "email" :> Str("e2"))),
    Obj("lead" :> Obj("name" :> Str(""))),
    Obj("lead" :> Null),
    Obj("lead" :> Str("text")),
    Obj("lead" :> Arr(<<Obj("name" :> Str("Ana"))>>)),
    Obj("lead" :> Num(0)),
    Obj("a" :> Obj("b" :> Obj("c" :> Num(0)))),
    Obj("a" :> Obj("b" :> Obj("c" :> Bool(FALSE)))),
    Obj("a" :> Obj("b" :> Obj([k \in {} |-> Null]))),
    Obj("a" :> Obj("b" :> Null)),
    Obj([k \in {} |-> Null]),
    Arr(<<Str("x"), Null>>),
    Arr(<<>>),
    Str("x"), Str(""), Num(0), Num(7), Bool(TRUE), Null }

\* Dotted paths, split on ".".
Paths ==
  { <<"lead">>, <<"lead", "name">>, <<"lead", "email">>,
    <<"lead", "name", "length">>, <<"lead", "0", "name">>,
    <<"a", "b", "c">>, <<"a", "b">>, <<"0">>, <<"1">>, <<"length">>,
    <<"constructor">> }

\* Arguments of mapPriorityToEnum.
Priorities ==
  { Undef, Null, Str(""), Str("   "), Str(" Alta "), Str("ALTA"), Str("HIGH"),
    Str("Baixa"), Str("  low"), Str("Média"), Str("Urgent "), Str("low"),
    Str("medium"), Str("high"), Str("media"), Str("medio"), Str("médio"),
    Str("alto"), Str("baixo"), Str("urgent"), Num(0), Num(5), Bool(TRUE),
    Bool(FALSE), Obj("level" :> Str("high")), Arr(<<Str("high")>>),
    Arr(<<>>) }

FnInit ==
  /\ pc = [r \in Reqs |-> "idle"]
  /\ rq = [r \in Reqs |-> InitLocals]
  /\ ops = [r \in Reqs |-> <<>>]
  /\ contacts = InitContacts
  /\ leads = <<>>
  /\ requests = <<>>
  /\ samples = <<>>
  /\ faults = 0
  /\ \/ \E doc \in Docs, path \in Paths :
          calc = [NoCalc EXCEPT !.fn = "getNestedValue", !.doc = doc,
                                !.path = path]
     \/ \E arg \in Priorities :
          calc = [NoCalc EXCEPT !.fn = "mapPriorityToEnum", !.arg = arg]

\* getNestedValue(doc, path)
CallGetNestedValue ==
  /\ calc.fn = "getNestedValue" /\ calc.calls = 0
  /\ LET out == getNestedValue(calc.doc, calc.path) IN
     calc' = [calc EXCEPT !.calls = 1, !.out = out,
                          !.threw = (out = TypeError)]
  /\ UNCHANGED <<pc, rq, ops, contacts, leads, requests, samples, faults>>

\* mapPriorityToEnum(arg)
CallMapPriorityToEnum ==
  /\ calc.fn = "mapPriorityToEnum" /\ calc.calls = 0
  /\ LET res == mapPriorityToEnum(calc.arg) IN
     calc' = [calc EXCEPT !.calls = 1, !.out = Str(res.v),
                          !.threw = res.threw]
  /\ UNCHANGED <<pc, rq, ops, contacts, leads, requests, samples, faults>>

\* mapPriorityToEnum(mapPriorityToEnum(arg)), when the first call returned.
CallMapPriorityToEnumAgain ==
  /\ calc.fn = "mapPriorityToEnum" /\ calc.calls = 1 /\ ~calc.threw
  /\ LET res == mapPriorityToEnum(calc.out) IN
     calc' = [calc EXCEPT !.calls = 2, !.again = Str(res.v),
                          !.threw = res.threw]
  /\ UNCHANGED <<pc, rq, ops, contacts, leads, requests, samples, faults>>

FnNext ==
  \/ CallGetNestedValue
  \/ CallMapPriorityToEnum
  \/ CallMapPriorityToEnumAgain

FnSpec == FnInit /\ [][FnNext]_vars

(***************************************************************************)
(* Properties.                                                             *)
(***************************************************************************)
Count(seq, x) == Cardinality({i \in DOMAIN seq : seq[i] = x})

Issued(r, op) == Count(ops[r], op) > 0

\* processWebhookPayload has returned to the handler.
Returned2Handler(r) == pc[r] \in {"respond", "done"}

\* The store calls about contacts and leads.
ContactLeadOps ==
  {"select:contacts:phone", "select:contacts:email", "insert:contacts",
   "rpc:create_lead_unified", "rpc:move_lead_to_column"}

NoContactLeadOps(r) == \A op \in ContactLeadOps : ~Issued(r, op)

\* No row of webhook_requests or leads was written for r, and r issued no
\* call of the local sequence.
NothingWritten(r) ==
  /\ \A i \in DOMAIN requests : requests[i].by # r
  /\ \A i \in DOMAIN leads : leads[i].by # r
  /\ ~Issued(r, "insert:contacts")
  /\ ~Issued(r, "upsert:webhook_sample_data")

\* C1: once the remote call of a request has ended, it was issued exactly
\* once and as the first call of processWebhookPayload; the fallback was
\* called exactly once if the remote call failed (an error or an exception)
\* and not at all otherwise, and its first store call was issued at most
\* once; after data from the remote call the result is that data and no
\* other call was issued.
C1_RemoteOnceThenFallback ==
  \A r \in Reqs :
    /\ pc[r] = "rpc" => ~Issued(r, "rpc:process_webhook_payload")
                        /\ ~Issued(r, "call:fallback")
    /\ rq[r].remote # "" =>
         /\ Len(ops[r]) >= 2
         /\ ops[r][1] = "rpc:get_webhook_by_token"
         /\ ops[r][2] = "rpc:process_webhook_payload"
         /\ Count(ops[r], "rpc:process_webhook_payload") = 1
         /\ Count(ops[r], "call:fallback")
              = IF rq[r].remote = "failed" THEN 1 ELSE 0
         /\ Count(ops[r], "select:webhook_endpoints") <= 1
         /\ rq[r].remote = "failed" =>
              /\ ops[r][3] = "call:fallback"
              /\ Returned2Handler(r) => rq[r].result.by = "local"
         /\ rq[r].remote # "failed" =>
              /\ Returned2Handler(r)
              /\ rq[r].result = RemoteData(rq[r].remote)
              /\ Len(ops[r]) = 2
              /\ NothingWritten(r)

C1_Witness ==
  /\ \E r \in Reqs : /\ pc[r] = "done" /\ rq[r].remote = "failed"
                     /\ rq[r].result.by = "local" /\ rq[r].result.success
                     /\ Issued(r, "rpc:create_lead_unified")
  /\ \E r \in Reqs : /\ pc[r] = "done" /\ rq[r].remote = "success"
                     /\ rq[r].response.success

\* The path is present in the document: every key along it is an own key
\* of an object.
RECURSIVE Present(_, _)
Present(doc, keys) ==
  IF keys = <<>> THEN TRUE
  ELSE /\ doc.t = "obj"
       /\ Head(keys) \in DOMAIN doc.o
       /\ Present(doc.o[Head(keys)], Tail(keys))

\* The required mappings of a list whose source path is absent from the
\* payload and whose default_value is absent, in list order.
AbsentRequired(mappings, payload) ==
  SelectSeq(mappings,
            LAMBDA m : /\ m.is_required
                       /\ ~Present(payload, Split(m.source_field))
                       /\ m.default_value = Null)

MissingFieldError(field) == "Campo obrigatório ausente: " \o field

\* The mapping step of r ran on the endpoint's list of mappings.
MappingStepRan(r) ==
  /\ rq[r].outcome # ""
  /\ "select:webhook_field_mappings!error" \notin rq[r].failed

\* C2: when the mapping list holds required mappings whose source path and
\* default are both absent, the mapping step fails with the missing-field
\* error that names the first of them in list order.
C2_FirstAbsentRequiredNamed ==
  \A r \in Reqs :
    LET absent == AbsentRequired(Cfg(rq[r].fbWebhook).mappings,
                                 Payloads[rq[r].payload])
    IN
    (MappingStepRan(r) /\ absent # <<>>) =>
      /\ rq[r].outcome = "missing"
      /\ Returned2Handler(r) =>
           rq[r].result.error = MissingFieldError(absent[1].source_field)

\* C3: a request whose mapping step found a required field missing has the
\* missing-field error as its result and has issued no contact lookup, no
\* contact insert, no lead-creation call and no column move.
C3_MissingFieldBeforeWrites ==
  \A r \in Reqs :
    rq[r].outcome = "missing" =>
      /\ NoContactLeadOps(r)
      /\ \A i \in DOMAIN leads : leads[i].by # r
      /\ Returned2Handler(r)
      /\ ~rq[r].result.success
      /\ \E i \in DOMAIN Cfg(rq[r].fbWebhook).mappings :
           rq[r].result.error =
             MissingFieldError(Cfg(rq[r].fbWebhook).mappings[i].source_field)

C3_Witness ==
  \E r \in Reqs :
    /\ pc[r] = "done" /\ rq[r].token = "t_w_act" /\ rq[r].payload = 3
    /\ rq[r].outcome = "missing"
    /\ rq[r].response.message = MissingFieldError("lead.name")
    /\ ~rq[r].response.success

NoMappingsError == "Nenhum mapeamento de campo configurado"

\* C4: for an active-mode endpoint without active mappings the local path
\* issues no contact or lead call and never returns success, whatever the
\* payload; once it has fetched the mappings it has returned the
\* no-mappings-configured error.
C4_NoMappingsConfigured ==
  \A r \in Reqs :
    (/\ rq[r].fbWebhook # ""
     /\ Cfg(rq[r].fbWebhook).mapping_mode = "active"
     /\ Cfg(rq[r].fbWebhook).mappings = <<>>) =>
      /\ NoContactLeadOps(r)
      /\ \A i \in DOMAIN leads : leads[i].by # r
      /\ Returned2Handler(r) => ~rq[r].result.success
      /\ (Issued(r, "select:webhook_field_mappings")
          /\ "select:webhook_field_mappings!raise" \notin rq[r].failed) =>
           /\ rq[r].outcome = "nomappings"
           /\ Returned2Handler(r)
           /\ rq[r].result.error = NoMappingsError

C4_Witness ==
  /\ \E r \in Reqs : /\ pc[r] = "done" /\ rq[r].fbWebhook = "w_nomap"
                     /\ rq[r].payload = 2
                     /\ rq[r].response.message = NoMappingsError
                     /\ ~rq[r].response.success
  /\ \E r \in Reqs : /\ pc[r] = "done" /\ rq[r].fbWebhook = "w_nomap"
                     /\ rq[r].payload = 7
                     /\ rq[r].response.message = NoMappingsError

\* The request went to an active endpoint in mapping mode.
MappingModeRequest(r) ==
  /\ rq[r].method = "POST"
  /\ rq[r].webhook # ""
  /\ Cfg(rq[r].webhook).is_active
  /\ Cfg(rq[r].webhook).mapping_mode = "mapping"

\* The payloads other requests have upserted as the sample of r's endpoint.
\* The payloads the table holds as samples of the endpoint.
SamplesOf(id) ==
  {samples[i].sample_payload :
     i \in {k \in DOMAIN samples : samples[k].webhook_endpoint_id = id}}

OtherUpserts(r) ==
  {rq[x].payload : x \in {y \in Reqs \ {r} :
                            /\ rq[y].fbWebhook = rq[r].webhook
                            /\ Issued(y, "upsert:webhook_sample_data")}}

\* The sample of r's endpoint is r's payload (or that of another request's
\* upsert), and r's audit record is completed.
SampleAndAuditDone(r) ==
  /\ SamplesOf(rq[r].webhook) # {}
  /\ SamplesOf(rq[r].webhook) \subseteq {rq[r].payload} \cup OtherUpserts(r)
  /\ \E i \in DOMAIN requests :
       /\ requests[i].by = r
       /\ requests[i].status = "completed"
       /\ requests[i].payload = rq[r].payload

MappingAnswer(r) ==
  /\ rq[r].response.status = 200
  /\ rq[r].response.mode = "mapping"
  /\ rq[r].response.success

InactiveLookedUp(r) ==
  /\ rq[r].method = "POST"
  /\ pc[r] \notin {"idle", "lookup"}
  /\ rq[r].response.status # 400
  /\ rq[r].failed = {}
  /\ \E e \in EndpointsByToken(rq[r].token) : ~e.is_active

\* C6: a request whose token lookup returned an endpoint with is_active
\* false is answered 403 WEBHOOK_INACTIVE at once: neither the remote
\* procedure nor the fallback is called and nothing is written for it.
C6_InactiveRejected ==
  \A r \in Reqs :
    InactiveLookedUp(r) =>
      /\ pc[r] = "done"
      /\ rq[r].response.status = 403
      /\ rq[r].response.code = "WEBHOOK_INACTIVE"
      /\ rq[r].response.code # NotFound.code
      /\ ~rq[r].response.success
      /\ ops[r] = <<"rpc:get_webhook_by_token">>
      /\ rq[r].remote = ""
      /\ NothingWritten(r)
      /\ SamplesOf("w_off") = {}

C6_Witness ==
  \E r \in Reqs :
    /\ pc[r] = "done" /\ rq[r].token = "t_w_off"
    /\ rq[r].response.code = "WEBHOOK_INACTIVE"

\* The token lookup of r has ended without an endpoint: the token is no
\* endpoint's, or the call returned an error.
LookupFoundNothing(r) ==
  /\ rq[r].method = "POST"
  /\ pc[r] \notin {"idle", "lookup"}
  /\ rq[r].response.status # 400
  /\ "rpc:get_webhook_by_token!raise" \notin rq[r].failed
  /\ \/ EndpointsByToken(rq[r].token) = {}
     \/ "rpc:get_webhook_by_token!error" \in rq[r].failed

\* C7: a request whose token lookup yields no endpoint, the error of the
\* lookup call included, is answered 404 WEBHOOK_NOT_FOUND at once:
\* neither the remote procedure nor the fallback is called and nothing is
\* written for it.
C7_NotFoundRejected ==
  \A r \in Reqs :
    LookupFoundNothing(r) =>
      /\ pc[r] = "done"
      /\ rq[r].response.status = 404
      /\ rq[r].response.code = "WEBHOOK_NOT_FOUND"
      /\ ~rq[r].response.success
      /\ ops[r] = <<"rpc:get_webhook_by_token">>
      /\ rq[r].remote = ""
      /\ NothingWritten(r)

C7_Witness ==
  \E r \in Reqs :
    /\ pc[r] = "done" /\ rq[r].token = "t_w_act"
    /\ "rpc:get_webhook_by_token!error" \in rq[r].failed
    /\ rq[r].response.code = "WEBHOOK_NOT_FOUND"
    /\ \E x \in Reqs : /\ pc[x] = "done" /\ rq[x].token = "t_none"
                       /\ rq[x].response.status = 404

\* The contacts of r's tenant that had LeadData's phone before any request.
KnownByPhone(r) ==
  IF Truthy(rq[r].leadData["phone"])
  THEN ContactsWith(Cfg(rq[r].fbWebhook).company_id, "phone",
                    Txt(rq[r].leadData["phone"]))
       \cap DOMAIN InitContacts
  ELSE {}

KnownByEmail(r) ==
  IF Truthy(rq[r].leadData["email"])
  THEN ContactsWith(Cfg(rq[r].fbWebhook).company_id, "email",
                    Txt(rq[r].leadData["email"]))
       \cap DOMAIN InitContacts
  ELSE {}

\* The mapping step of r produced a LeadData and the contact resolution
\* began.
Resolving(r) == rq[r].outcome = "ok"

\* C8: a local-path request whose LeadData phone is that of a contact the
\* tenant already has issues no contact insert, and its lead-creation call
\* carries that contact's id.
C8_ExistingPhoneContactReused ==
  \A r \in Reqs :
    (Resolving(r) /\ KnownByPhone(r) # {}) =>
      /\ ~Issued(r, "insert:contacts")
      /\ pc[r] # "fb_cinsert"
      /\ rq[r].leadCall.issued => rq[r].leadCall.contact_id \in KnownByPhone(r)

\* C9: when LeadData's phone matches contact A and its email another
\* contact B of the tenant, A is used; the email lookup is issued only
\* after the phone lookup found nothing or without a phone; a contact is
\* inserted only after the lookups that were due found nothing.
C9_PhoneBeforeEmail ==
  \A r \in Reqs :
    Resolving(r) =>
      /\ (KnownByPhone(r) # {} /\ KnownByEmail(r) # {}
          /\ KnownByPhone(r) \cap KnownByEmail(r) = {}
          /\ rq[r].leadCall.issued) =>
           rq[r].leadCall.contact_id \in KnownByPhone(r)
      /\ Issued(r, "select:contacts:email") =>
           /\ rq[r].existingContact \notin KnownByPhone(r)
           /\ Truthy(rq[r].leadData["phone"]) =>
                Issued(r, "select:contacts:phone")
      /\ (Issued(r, "insert:contacts") \/ pc[r] = "fb_cinsert") =>
           /\ rq[r].existingContact = 0
           /\ Truthy(rq[r].leadData["phone"]) =>
                Issued(r, "select:contacts:phone")
           /\ Truthy(rq[r].leadData["email"]) =>
                Issued(r, "select:contacts:email")

\* LeadData has a phone, an email or a name.
Identified(leadData) ==
  \/ Truthy(leadData["phone"]) \/ Truthy(leadData["email"])
  \/ Truthy(leadData["name"])

LocalReturnAudited(r) ==
  /\ Returned2Handler(r)
  /\ rq[r].result.by = "local"
  /\ rq[r].requestData # 0

\* C11: whenever the local path has returned a result for a request whose
\* audit record was inserted, that record is no longer in status
\* processing: it is success, failed or completed.
C11_AuditUpdatedBeforeReturn ==
  \A r \in Reqs :
    LocalReturnAudited(r) =>
      requests[rq[r].requestData].status \in {"success", "failed", "completed"}

\* How the lead-creation call of r failed at the store: "error" for an
\* error, "unsuccessful" for a result without success, "" if it did not.
LeadFailure(r) ==
  IF "rpc:create_lead_unified!error" \in rq[r].failed THEN "error"
  ELSE IF "rpc:create_lead_unified!unsuccessful" \in rq[r].failed
  THEN "unsuccessful"
  ELSE ""

\* C12: when the lead-creation call failed at the store, the result of the
\* request is a failure with the message of that error, and the audit
\* record of the request is marked failed.
C12_LeadFailureMarksAuditFailed ==
  \A r \in Reqs :
    (Returned2Handler(r) /\ LeadFailure(r) # "") =>
      /\ ~rq[r].result.success
      /\ rq[r].result.error = "create_lead_unified: " \o LeadFailure(r)
      /\ rq[r].requestData # 0 =>
           requests[rq[r].requestData].status = "failed"

\* The update of the audit record of r returned an error or raised.
AuditUpdateFailed(r) ==
  \/ "update:webhook_requests!error" \in rq[r].failed
  \/ "update:webhook_requests!raise" \in rq[r].failed

\* C13: a failed update of the audit record does not change the result: in
\* mapping mode the result is the mapping result, and after a created lead
\* it is success with the id of that lead.
C13_AuditUpdateFailureSwallowed ==
  \A r \in Reqs :
    (Returned2Handler(r) /\ AuditUpdateFailed(r)) =>
      IF Cfg(rq[r].fbWebhook).mapping_mode = "mapping"
      THEN rq[r].result = MappingResult
      ELSE /\ rq[r].leadResult # 0
           /\ rq[r].result.success
           /\ rq[r].result.lead_id = rq[r].leadResult

\* The mappings of r's endpoint and the body of r.
MappingsOf(r) == Cfg(rq[r].fbWebhook).mappings
BodyOf(r) == Payloads[rq[r].payload]

\* The positions of a mapping list that target a field.
Targeting(mappings, field) ==
  {i \in DOMAIN mappings : mappings[i].target_field = field}

Last(idx) == CHOOSE k \in idx : \A i \in idx : i <= k

\* The value of the source path of a mapping in a document: absent (Undef)
\* when a key of the path is absent or the value is null.
SourceValue(doc, mapping) ==
  IF Present(doc, Split(mapping.source_field))
     /\ getNestedValue(doc, Split(mapping.source_field)) # Null
  THEN getNestedValue(doc, Split(mapping.source_field))
  ELSE Undef

\* The resolved value of a mapping as the claims word it: the source value,
\* or the default when the source value is absent; Undef for neither.
Resolved(doc, mapping) ==
  IF SourceValue(doc, mapping) # Undef THEN SourceValue(doc, mapping)
  ELSE IF mapping.default_value # Null THEN mapping.default_value
  ELSE Undef

\* What LeadData holds for a value written to a target field.
Written(field, v) ==
  IF field = "priority" /\ v # Undef THEN Str(mapPriorityToEnum(v).v) ELSE v

\* The fields LeadData is seeded with.
Seeded == {"status", "priority", "source"}

C15_PresentValueIsUsed ==
  \A r \in Reqs :
    MappingStepRan(r) =>
      \A i \in DOMAIN MappingsOf(r) :
        LET mapping == MappingsOf(r)[i]
            v == SourceValue(BodyOf(r), mapping)
        IN
        v # Undef =>
          /\ (rq[r].outcome = "missing" /\ Returned2Handler(r)) =>
               rq[r].result.error # MissingFieldError(mapping.source_field)
          /\ (rq[r].outcome = "ok"
              /\ i = Last(Targeting(MappingsOf(r), mapping.target_field))) =>
               rq[r].leadData[mapping.target_field]
                 = Written(mapping.target_field, v)

\* The request of the scenario: lead.name alone, on the endpoint whose
\* mappings require lead.name and take lead.email and lead.phone if there,
\* handled by the local path without a failing store call.
NameOnlyRequest(r) ==
  /\ rq[r].method = "POST"
  /\ rq[r].webhook = "w_act"
  /\ BodyOf(r) = Lead("name" :> Str("Joao"))
  /\ rq[r].remote = "failed"
  /\ rq[r].failed = {}

\* C16: a mapping that is not required, whose source path is absent and that
\* has no default is never the one reported missing, and it leaves its
\* target field absent from LeadData unless another mapping gives the field
\* a value; the request with lead.name alone succeeds, with a new contact
\* that has the name and no email, and with a lead for that contact.
C16_OptionalAbsentMappingSkipped ==
  \A r \in Reqs :
    /\ MappingStepRan(r) =>
         \A i \in DOMAIN MappingsOf(r) :
           LET mapping == MappingsOf(r)[i] IN
           (~mapping.is_required /\ Resolved(BodyOf(r), mapping) = Undef) =>
             /\ (rq[r].outcome = "missing" /\ Returned2Handler(r)) =>
                  rq[r].result.error # MissingFieldError(mapping.source_field)
             /\ (rq[r].outcome = "ok"
                 /\ Targeting(MappingsOf(r), mapping.target_field) = {i}) =>
                  rq[r].leadData[mapping.target_field] = Undef
    /\ (NameOnlyRequest(r) /\ Returned2Handler(r)) =>
         /\ rq[r].result.success
         /\ rq[r].leadData["name"] = Str("Joao")
         /\ rq[r].leadData["email"] = Undef
         /\ Issued(r, "insert:contacts")
         /\ rq[r].leadCall.contact_id \in DOMAIN contacts \ DOMAIN InitContacts
         /\ contacts[rq[r].leadCall.contact_id].full_name = "Joao"
         /\ contacts[rq[r].leadCall.contact_id].email = ""
         /\ rq[r].result.lead_id \in DOMAIN leads
         /\ leads[rq[r].result.lead_id].contact_id = rq[r].leadCall.contact_id

C16_Witness ==
  \E r \in Reqs :
    /\ NameOnlyRequest(r) /\ pc[r] = "done"
    /\ rq[r].response.success /\ rq[r].response.lead_id # 0

\* The value a JSON document stores at a path: the member of an object for
\* a key, the element of an array for an index; Undef when a key along the
\* path is absent.
RECURSIVE JsonAt(_, _)
JsonAt(doc, keys) ==
  IF keys = <<>> THEN doc
  ELSE IF doc.t = "obj" /\ Head(keys) \in DOMAIN doc.o
  THEN JsonAt(doc.o[Head(keys)], Tail(keys))
  ELSE IF doc.t = "arr" /\ Index(Head(keys)) \in DOMAIN doc.a
  THEN JsonAt(doc.a[Index(Head(keys))], Tail(keys))
  ELSE Undef

\* C17: getNestedValue(document, path) does not throw, returns the value
\* the document stores at the path when every key along it is present, and
\* null when a key is absent, whatever the shape of the document.
C17_NestedValueOrNull ==
  (calc.fn = "getNestedValue" /\ calc.calls = 1) =>
    /\ ~calc.threw
    /\ calc.out = IF JsonAt(calc.doc, calc.path) = Undef THEN Null
                  ELSE JsonAt(calc.doc, calc.path)

\* C18: mapPriorityToEnum returns for every argument, without raising, one
\* of low, medium and high, and applied to its own result returns it again.
C18_PriorityTotalIdempotent ==
  (calc.fn = "mapPriorityToEnum" /\ calc.calls > 0) =>
    /\ ~calc.threw
    /\ calc.out \in {Str("low"), Str("medium"), Str("high")}
    /\ calc.calls > 1 => calc.again = calc.out

PriorityEnum == {"low", "medium", "high"}

\* C19: the priority of every lead-creation call of the local path, and of
\* every lead it creates, is one of low, medium and high.
C19_LeadPriorityInEnum ==
  /\ \A r \in Reqs :
       rq[r].leadCall.issued => rq[r].leadCall.priority \in PriorityEnum
  /\ \A i \in DOMAIN leads : leads[i].priority \in PriorityEnum

\* A lead from the endpoint default "HIGH" and a lead from the payload's
\* "Baixa".
C19_Witness ==
  /\ \E r \in Reqs :
       /\ rq[r].webhook = "w_act" /\ rq[r].leadCall.issued
       /\ Cfg(rq[r].fbWebhook).default_lead_priority = Str("HIGH")
       /\ rq[r].leadCall.priority = "high"
  /\ \E r \in Reqs :
       /\ rq[r].webhook = "w_col" /\ rq[r].leadCall.issued
       /\ getNestedValue(BodyOf(r), <<"prio">>) = Str("Baixa")
       /\ rq[r].leadCall.priority = "low"

\* The column of the lowest position.
Lowest(columns) ==
  CHOOSE c \in columns : \A d \in columns : c.position <= d.position

\* The column the lead of an endpoint is to be moved to: the default column,
\* else the lowest column of the pipeline, "" without either.
TargetColumn(webhook) ==
  IF webhook.default_column_id # "" THEN webhook.default_column_id
  ELSE IF PipelineColumns(webhook.webhook_id) # {}
  THEN Lowest(PipelineColumns(webhook.webhook_id)).id
  ELSE ""

\* C20: once the local path has returned after creating a lead, it has
\* issued at most one column move; when the endpoint has a default column,
\* or else its pipeline a column, the move was issued and (unless the move
\* failed) the lead is in that column.
C20_LeadMovedToColumn ==
  \A r \in Reqs :
    (Returned2Handler(r) /\ rq[r].leadResult # 0) =>
      /\ Count(ops[r], "rpc:move_lead_to_column") <= 1
      /\ TargetColumn(Cfg(rq[r].fbWebhook)) # "" =>
           /\ Issued(r, "rpc:move_lead_to_column")
           /\ ("rpc:move_lead_to_column!error" \notin rq[r].failed
               /\ "rpc:move_lead_to_column!raise" \notin rq[r].failed) =>
                leads[rq[r].leadResult].column_id
                  = TargetColumn(Cfg(rq[r].fbWebhook))

(***************************************************************************)
(* The rules of the remote procedure process_webhook_payload, which is not *)
(* part of the service's source: the Enum Normalizer and the Mapping       *)
(* Engine as the specification states them.                                *)
(***************************************************************************)
\* normalizePriority(raw): total; what is no recognised text is medium.
normalizePriority(raw) ==
  IF raw.t = "str" THEN mapPriorityToEnum(raw).v ELSE "medium"

\* Steps 3 to 5 of the Mapping Engine: the source value, else the default;
\* without either a required mapping fails, else nothing is written.
RECURSIVE applyMappingList(_, _, _)
applyMappingList(payload, mappings, leadData) ==
  IF mappings = <<>> THEN [kind |-> "ok", leadData |-> leadData, field |-> ""]
  ELSE
    LET mapping == Head(mappings)
        value == Resolved(payload, mapping)
    IN
    IF value = Undef /\ mapping.is_required
    THEN [kind |-> "missing", leadData |-> leadData,
          field |-> mapping.source_field]
    ELSE IF value = Undef
    THEN applyMappingList(payload, Tail(mappings), leadData)
    ELSE applyMappingList(
           payload, Tail(mappings),
           [leadData EXCEPT ![mapping.target_field] =
              IF mapping.target_field = "priority"
              THEN Str(normalizePriority(value)) ELSE value])

\* applyMappings(payload, mappings, endpointDefaults)
applyMappings(webhook, payload, mappings) ==
  LET seed == SeedLeadData(webhook,
                           normalizePriority(webhook.default_lead_priority))
  IN
  IF mappings = <<>>
  THEN [kind |-> "nomappings", leadData |-> seed, field |-> ""]
  ELSE applyMappingList(payload, mappings, seed)

\* C21: a request handled by the local path ends its mapping step in the
\* outcome the rules of the primary path give for the same endpoint and
\* payload: the same rejection (no mappings, or the same missing field), or
\* the same LeadData.
C21_SameBusinessOutcome ==
  \A r \in Reqs :
    MappingStepRan(r) =>
      LET m == applyMappings(Cfg(rq[r].fbWebhook), BodyOf(r), MappingsOf(r)) IN
      /\ rq[r].outcome = m.kind
      /\ m.kind = "ok" => rq[r].leadData = m.leadData
      /\ (m.kind = "missing" /\ Returned2Handler(r)) =>
           rq[r].result.error = MissingFieldError(m.field)

\* r was processed to success by the local path.
LocalSuccess(r) ==
  /\ Returned2Handler(r)
  /\ rq[r].result.by = "local"
  /\ rq[r].result.success
  /\ Cfg(rq[r].webhook).mapping_mode = "active"

\* C22: two deliveries of one payload to one active endpoint, both processed
\* to success by the local path, have each issued one lead-creation call
\* and have each a lead of their own.
C22_SamePayloadTwoLeads ==
  \A r1, r2 \in Reqs :
    (/\ r1 # r2 /\ LocalSuccess(r1) /\ LocalSuccess(r2)
     /\ rq[r1].token = rq[r2].token /\ rq[r1].payload = rq[r2].payload) =>
      /\ Count(ops[r1], "rpc:create_lead_unified") = 1
      /\ Count(ops[r2], "rpc:create_lead_unified") = 1
      /\ rq[r1].result.lead_id \in DOMAIN leads
      /\ rq[r2].result.lead_id \in DOMAIN leads
      /\ rq[r1].result.lead_id # rq[r2].result.lead_id
      /\ leads[rq[r1].result.lead_id].by = r1
      /\ leads[rq[r2].result.lead_id].by = r2

C22_Witness ==
  /\ \A r \in Reqs : LocalSuccess(r) /\ pc[r] = "done"
  /\ rq["r1"].token = rq["r2"].token /\ rq["r1"].payload = rq["r2"].payload
  /\ Len(leads) = Cardinality(Reqs)

\* r is a request of GET /webhook/:token/test.
TestRequest(r) == rq[r].method = "GET"

\* C23: a request of GET /webhook/:token/test issues the token lookup and
\* no other call, neither the remote procedure nor the fallback, and no
\* step of it changes a sample, an audit record, a contact or a lead,
\* whatever the token.
C23_TestHasNoEffect ==
  /\ [](\A r \in Reqs :
          TestRequest(r) =>
            /\ Len(ops[r]) <= 1
            /\ \A i \in DOMAIN ops[r] : ops[r][i] = "rpc:get_webhook_by_token"
            /\ rq[r].remote = ""
            /\ rq[r].result = NoResult
            /\ NothingWritten(r))
  /\ [][\A r \in Reqs :
          (TestRequest(r)' /\ pc'[r] # pc[r]) =>
            UNCHANGED <<contacts, leads, requests, samples>>]_vars

\* Tests answered for an active, an inactive and an unknown token.
C23_Witness ==
  \E r \in Reqs :
    /\ TestRequest(r) /\ pc[r] = "done"
    /\ rq[r].token = "t_w_off" /\ rq[r].response.status = 200
    /\ \E x \in Reqs \ {r} :
         /\ TestRequest(x) /\ pc[x] = "done"
         /\ rq[x].token = "t_none" /\ rq[x].response.status = 404

\* The calls of the local sequence.
LocalOps ==
  {"select:webhook_endpoints", "insert:webhook_requests",
   "upsert:webhook_sample_data", "update:webhook_requests", "select:users",
   "select:webhook_field_mappings", "select:contacts:phone",
   "select:contacts:email", "insert:contacts", "rpc:create_lead_unified",
   "rpc:move_lead_to_column"}

\* The local sequence of r ended in its catch with an exception nobody
\* threw on purpose: a call of it raised, or the mapping step hit a
\* TypeError.
UnanticipatedLocalError(r) ==
  /\ rq[r].result.by = "local"
  /\ ~rq[r].result.success
  /\ \/ \E op \in LocalOps : (op \o "!raise") \in rq[r].failed
     \/ rq[r].outcome = "throw"

InsertedContact(r) ==
  /\ Issued(r, "insert:contacts")
  /\ rq[r].existingContact = 0
  /\ rq[r].contactId # 0

\* No contact of the tenant had the phone before any request.
NoPriorMatch(company, phone) ==
  \A i \in DOMAIN InitContacts :
    ~(InitContacts[i].company_id = company /\ InitContacts[i].phone = phone)

\* a and b, two requests of one tenant, each inserted a contact with the
\* same phone, which no contact had beforehand, after a phone lookup that
\* returned.
SamePhoneTwice(a, b) ==
  /\ a # b
  /\ InsertedContact(a) /\ InsertedContact(b)
  /\ contacts[rq[a].contactId].company_id = contacts[rq[b].contactId].company_id
  /\ contacts[rq[a].contactId].phone = contacts[rq[b].contactId].phone
  /\ contacts[rq[a].contactId].phone # ""
  /\ NoPriorMatch(contacts[rq[a].contactId].company_id,
                  contacts[rq[a].contactId].phone)
  /\ rq[a].failed = {} /\ rq[b].failed = {}

\* C25: two local-path requests of one tenant with the same phone, unknown
\* beforehand, can both insert a contact, and they do so only by
\* interleaving: the phone lookup of each came before the insert of the
\* other.
C25_DuplicateContactOnlyByRace ==
  \A a, b \in Reqs :
    SamePhoneTwice(a, b) =>
      /\ rq[a].seen < rq[b].contactId
      /\ rq[b].seen < rq[a].contactId

\* Two contacts of tenant c1 with phone p9, which no contact had.
C25_Witness ==
  /\ SamePhoneTwice("r1", "r2")
  /\ contacts[rq["r1"].contactId].phone = "p9"
  /\ rq["r1"].contactId # rq["r2"].contactId
  /\ pc["r1"] = "done" /\ pc["r2"] = "done"

\* Two contacts of one tenant have the same phone or the same email.
SharedIdentity(i, j) ==
  /\ i # j
  /\ contacts[i].company_id = contacts[j].company_id
  /\ \/ contacts[i].phone # "" /\ contacts[i].phone = contacts[j].phone
     \/ contacts[i].email # "" /\ contacts[i].email = contacts[j].email

C27_NoRollbackOfContact ==
  \A r \in Reqs :
    (Returned2Handler(r) /\ InsertedContact(r) /\ LeadFailure(r) # "") =>
      /\ ~rq[r].result.success
      /\ pc[r] = "done" => ~rq[r].response.success
      /\ rq[r].contactId \in DOMAIN contacts
      /\ contacts[rq[r].contactId] =
           NewContact(Cfg(rq[r].webhook).company_id, rq[r].leadData)
      /\ \A i \in DOMAIN leads : leads[i].by # r

\* A request answered as failed after it inserted the contact (c1, p9).
C27_Witness ==
  \E r \in Reqs :
    /\ pc[r] = "done" /\ InsertedContact(r) /\ LeadFailure(r) # ""
    /\ contacts[rq[r].contactId].phone = "p9"
    /\ ~rq[r].response.success

\* The contact belongs to the tenant of the endpoint r came in by.
OwnContact(r, id) ==
  /\ id \in DOMAIN contacts
  /\ contacts[id].company_id = Cfg(rq[r].webhook).company_id

\* C28: the contact a request of the local path resolved, found or
\* inserted, and the contact id of its call of create_lead_unified and of
\* the lead created, are null or belong to the endpoint's tenant; a contact
\* of another tenant with the same phone or email is not reused.
C28_ContactOfOwnTenant ==
  /\ \A r \in Reqs :
       /\ rq[r].existingContact # 0 => OwnContact(r, rq[r].existingContact)
       /\ rq[r].contactId # 0 => OwnContact(r, rq[r].contactId)
       /\ (rq[r].leadCall # NoLeadCall /\ rq[r].leadCall.contact_id # 0)
            => OwnContact(r, rq[r].leadCall.contact_id)
  /\ \A i \in DOMAIN leads :
       leads[i].contact_id # 0 =>
         contacts[leads[i].contact_id].company_id = leads[i].company_id

\* A lead of tenant c1 created for phone p9 and email e2, both those of a
\* contact of tenant c2: the email matched the contact of c1.
C28_Witness ==
  \E r \in Reqs :
    /\ pc[r] = "done" /\ rq[r].result.success /\ rq[r].result.by = "local"
    /\ Txt(rq[r].leadData["phone"]) = "p9"
    /\ Txt(rq[r].leadData["email"]) = "e2"
    /\ \E i \in DOMAIN contacts :
         /\ contacts[i].company_id # Cfg(rq[r].webhook).company_id
         /\ contacts[i].phone = "p9" /\ contacts[i].email = "e2"
    /\ rq[r].existingContact = 2
    /\ rq[r].leadCall.contact_id = 2

\* The audit record i is new and in status processing, or is as it was, or
\* went from processing to a final status: completed for an endpoint in
\* mapping mode, success with the id of the lead its request created.
AuditStep(i) ==
  IF i \notin DOMAIN requests
  THEN requests'[i].status = "processing" /\ requests'[i].lead_id = 0
  ELSE \/ requests'[i] = requests[i]
       \/ /\ requests[i].status = "processing"
          /\ requests'[i].status \in {"success", "failed", "completed"}
          /\ requests'[i].status = "completed" =>
               Cfg(requests[i].webhook_endpoint_id).mapping_mode = "mapping"
          /\ requests'[i].status = "success" =>
               /\ requests'[i].lead_id \in DOMAIN leads
               /\ leads[requests'[i].lead_id].by = requests[i].by
               /\ rq[requests[i].by].leadResult = requests'[i].lead_id

\* C29: an audit record is inserted as processing and changes status at
\* most once, to success, failed or completed, never again; completed only
\* for a request in mapping mode, success only after the lead was created,
\* with that lead's id.
C29_AuditStatusTransitions ==
  [][/\ DOMAIN requests \subseteq DOMAIN requests'
     /\ \A i \in DOMAIN requests' : AuditStep(i)]_vars

\* One audit record completed and one in success with its lead.
C29_Witness ==
  \E i, j \in DOMAIN requests :
    /\ requests[i].status = "completed"
    /\ requests[j].status = "success" /\ requests[j].lead_id \in DOMAIN leads

\* The sample upsert of r for the endpoint was issued / returned without an
\* error.
UpsertIssued(r, id) ==
  rq[r].fbWebhook = id /\ Issued(r, "upsert:webhook_sample_data")

UpsertDone(r, id) ==
  /\ UpsertIssued(r, id)
  /\ "upsert:webhook_sample_data!error" \notin rq[r].failed
  /\ "upsert:webhook_sample_data!raise" \notin rq[r].failed

\* The rows of the endpoint in webhook_sample_data.
SampleRows(id) == {i \in DOMAIN samples : samples[i].webhook_endpoint_id = id}

\* With the requests one at a time r1 comes before r2: the later of the
\* requests that satisfy P, "" when none does.
Latest(P(_)) == IF P("r2") THEN "r2" ELSE IF P("r1") THEN "r1" ELSE ""

LatestIssued(id) == Latest(LAMBDA r : UpsertIssued(r, id))

LatestDone(id) == Latest(LAMBDA r : UpsertDone(r, id))

\* C30 as stated: with the requests handled one at a time, once a request
\* in mapping mode has made its sample upsert, the store holds exactly one
\* sample for the endpoint, the payload of the most recent such request.
C30_SampleIsLatestPayload ==
  \A id \in {x.webhook_id : x \in Endpoints} :
    LatestIssued(id) # "" =>
      /\ Cardinality(SampleRows(id)) = 1
      /\ SamplesOf(id) = {rq[LatestIssued(id)].payload}

\* C30 as amended: with the requests handled one at a time, the store
\* holds at most one sample for an endpoint: none before a sample upsert
\* for it has succeeded, and afterwards exactly one, the payload of the
\* most recent request whose sample upsert succeeded; the same payload
\* delivered twice leaves what one delivery leaves.
C30_SampleIsLatestStoredPayload ==
  \A id \in {x.webhook_id : x \in Endpoints} :
    IF LatestDone(id) = "" THEN SampleRows(id) = {}
    ELSE /\ Cardinality(SampleRows(id)) = 1
         /\ SamplesOf(id) = {rq[LatestDone(id)].payload}

\* Two requests in mapping mode, one after the other, with different
\* payloads: the sample is the second payload.
C30_Witness ==
  /\ pc["r1"] = "done" /\ pc["r2"] = "done"
  /\ UpsertDone("r1", "w_map") /\ UpsertDone("r2", "w_map")
  /\ rq["r1"].payload = 7 /\ rq["r2"].payload = 2
  /\ Len(samples) = 1 /\ samples[1] = SampleRow("w_map", 2)

\* The caller of r has been answered.
Answered(r) == rq[r].response # NoResponse

\* C31: a request is answered only when its handler has finished, that is
\* after the primary call and, if taken, every call of the fallback
\* returned; once it is answered no call is issued for it and nothing of
\* it changes.
C31_ResponseAfterAllCalls ==
  /\ [](\A r \in Reqs : Answered(r) => pc[r] = "done")
  /\ [][\A r \in Reqs :
          Answered(r) => (ops'[r] = ops[r] /\ rq'[r] = rq[r]
                          /\ pc'[r] = pc[r])]_vars

\* A request answered after the whole local sequence, the column move and
\* the audit update included.
C31_Witness ==
  \E r \in Reqs :
    /\ Answered(r) /\ rq[r].response.success
    /\ rq[r].remote = "failed"
    /\ Issued(r, "rpc:move_lead_to_column")
    /\ ops[r][Len(ops[r])] = "update:webhook_requests"

\* The handler of r called processWebhookPayload and answered.
Processed(r) ==
  rq[r].method = "POST" /\ rq[r].remote # "" /\ pc[r] = "done"

\* C32: the success flag of the response to a request that reached
\* processing is the success flag of the result processWebhookPayload
\* returned, in both endpoint modes.
C32_ResponseSuccessIsResultSuccess ==
  \A r \in Reqs :
    Processed(r) => rq[r].response.success = rq[r].result.success

\* C33: for one request the local code issues at most one contact insert
\* and at most one call of create_lead_unified, whatever the primary call
\* and the calls of the fallback do; the primary call and the fallback are
\* themselves made at most once.
C33_AtMostOneInsertAndLeadCall ==
  \A r \in Reqs :
    /\ Count(ops[r], "insert:contacts") <= 1
    /\ Count(ops[r], "rpc:create_lead_unified") <= 1
    /\ Count(ops[r], "rpc:process_webhook_payload") <= 1
    /\ Count(ops[r], "call:fallback") <= 1

\* A request answered as failed after its one insert and its one lead call,
\* which returned an error.
C33_Witness ==
  \E r \in Reqs :
    /\ pc[r] = "done" /\ ~rq[r].response.success
    /\ Count(ops[r], "insert:contacts") = 1
    /\ Count(ops[r], "rpc:create_lead_unified") = 1
    /\ "rpc:create_lead_unified!error" \in rq[r].failed

\* The local path of r returned success for a lead it created, naming a
\* column.
LocalLeadWithColumn(r) ==
  /\ Returned2Handler(r)
  /\ rq[r].result.by = "local" /\ rq[r].result.success
  /\ rq[r].result.lead_id \in DOMAIN leads
  /\ rq[r].result.column_id # ""

\* C34: the column_id of a success the local path returns is the column
\* the created lead is in.
C34_ReturnedColumnIsLeadColumn ==
  \A r \in Reqs :
    LocalLeadWithColumn(r) =>
      leads[rq[r].result.lead_id].column_id = rq[r].result.column_id

\* The admin-user lookup of r has ended without a user: the tenant has no
\* admin, or the lookup returned an error.
UserNotFound(r) ==
  /\ Issued(r, "select:users")
  /\ "select:users!raise" \notin rq[r].failed
  /\ \/ AdminUsers(Cfg(rq[r].fbWebhook).company_id) = {}
     \/ "select:users!error" \in rq[r].failed

\* C35: the local path issues a contact lookup, a contact insert or a
\* call of create_lead_unified only with an admin user of the endpoint's
\* tenant found; without one, or when the lookup returned an error, the
\* request fails with the user-not-found error and writes no contact and
\* no lead.
C35_NoWritesWithoutAdminUser ==
  \A r \in Reqs :
    /\ ~NoContactLeadOps(r) =>
         rq[r].user \in AdminUsers(Cfg(rq[r].fbWebhook).company_id)
    /\ UserNotFound(r) =>
         /\ Returned2Handler(r)
         /\ rq[r].result =
              Failure("Usuário não encontrado para criação do lead")
         /\ pc[r] = "done" =>
              /\ ~rq[r].response.success
              /\ rq[r].response.message =
                   "Usuário não encontrado para criação do lead"
         /\ NoContactLeadOps(r)
         /\ \A i \in DOMAIN leads : leads[i].by # r
    /\ "select:users!raise" \in rq[r].failed =>
         /\ Returned2Handler(r) /\ ~rq[r].result.success
         /\ NoContactLeadOps(r)

\* One request answered user-not-found for a tenant without an admin, one
\* after the lookup returned an error.
C35_Witness ==
  \E a, b \in Reqs :
    /\ pc[a] = "done" /\ UserNotFound(a) /\ rq[a].failed = {}
    /\ rq[a].webhook = "w_noadm"
    /\ pc[b] = "done" /\ UserNotFound(b)
    /\ "select:users!error" \in rq[b].failed

\* r is a request of POST /webhook/:token that has arrived.
Arrived(r) == rq[r].method = "POST"

\* C36: with every awaited call returning or raising in the end, every
\* request of POST /webhook/:token is answered, and answered once: the
\* response, once sent, stays as it is; and processWebhookPayload always
\* returns a result to the handler, a failure when a call of it or of the
\* fallback raised.
C36_EveryRequestAnsweredOnce ==
  /\ \A r \in Reqs : Arrived(r) ~> Answered(r)
  /\ [](\A r \in Reqs :
          (Arrived(r) /\ Answered(r)) =>
            /\ rq[r].response.status \in {400, 404, 403, 200, 500}
            /\ rq[r].remote # "" => /\ rq[r].result # NoResult
                                    /\ rq[r].response.status = 200
            /\ (rq[r].remote = "failed" /\ rq[r].failed # {}
                /\ rq[r].result.by = "local" /\ ~rq[r].result.success)
                 => rq[r].result.error # "")
  /\ [][\A r \in Reqs :
          Answered(r) => rq'[r].response = rq[r].response]_vars

\* A request answered 200 with a failure after a call of the fallback
\* raised.
C36_Witness ==
  \E r \in Reqs :
    /\ Arrived(r) /\ Answered(r)
    /\ rq[r].response.status = 200 /\ ~rq[r].response.success
    /\ "rpc:move_lead_to_column!raise" \in rq[r].failed

====
